---- MODULE Spec2Model ----
(***************************************************************************)
(* The Kaito Yaps proxy handler (api/kaito-yaps-proxy.js), modelled as a   *)
(* state machine.  Every invocation of the async handler is a slot; the    *)
(* handler runs synchronously up to its first await (the fetch), resumes   *)
(* when the fetch settles, awaits response.json() and resumes again.       *)
(* Texts are sequences of symbols: query-string texts are sequences of     *)
(* characters, JSON texts are sequences of tokens.                         *)
(***************************************************************************)
EXTENDS Integers, Sequences, FiniteSets, TLC

VARIABLES pc, req, res, outbound, response, data, fault, elapsed, windowCalls

vars == <<pc, req, res, outbound, response, data, fault, elapsed, windowCalls>>

\* Number of handler invocations the host runs concurrently.
MaxInv == 2

Invocations == 1..MaxInv

\* README: "Respects Kaito's 100 calls/5 min limit".
RateLimit == 100
WindowMinutes == 5

(***************************************************************************)
(* Query strings: URLSearchParams.append / toString                        *)
(***************************************************************************)

\* The application/x-www-form-urlencoded serializer: a space becomes "+", the
\* other characters outside its safe set are percent-encoded (those that
\* occur in the inputs are listed).
EncodeChar(c) ==
  CASE c = " " -> <<"+">>
    [] c = "&" -> <<"%", "2", "6">>
    [] c = "=" -> <<"%", "3", "D">>
    [] c = "+" -> <<"%", "2", "B">>
    [] c = "%" -> <<"%", "2", "5">>
    [] OTHER   -> <<c>>

RECURSIVE EncodeText(_)
EncodeText(s) ==
  IF s = <<>> THEN <<>> ELSE EncodeChar(Head(s)) \o EncodeText(Tail(s))

\* new URLSearchParams(): an empty list of name/value pairs.
NewURLSearchParams == <<>>

\* queryParams.append(name, value)
ParamsAppend(params, name, value) == Append(params, <<name, value>>)

\* Mutant of ParamsToString: the pairs concatenated without encoding.
RECURSIVE ParamsToStringRaw(_)
ParamsToStringRaw(params) ==
  IF params = <<>> THEN <<>>
  ELSE LET p == Head(params)
           one == p[1] \o <<"=">> \o p[2]
       IN IF Len(params) = 1 THEN one
          ELSE one \o <<"&">> \o ParamsToStringRaw(Tail(params))

\* queryParams.toString(): name=value pairs joined by "&", both encoded.
RECURSIVE ParamsToString(_)
ParamsToString(params) ==
  IF params = <<>> THEN <<>>
  ELSE LET p == Head(params)
           one == EncodeText(p[1]) \o <<"=">> \o EncodeText(p[2])
       IN IF Len(params) = 1 THEN one
          ELSE one \o <<"&">> \o ParamsToString(Tail(params))

(***************************************************************************)
(* JSON: response.json() (parse) and res.json() (stringify)                *)
(* A JSON text is a sequence of tokens; a JSON value is a tagged record.   *)
(* The grammar covers objects (nested), strings, numbers and null.         *)
(***************************************************************************)

TokP(s) == [k |-> "punct", s |-> s, f |-> <<>>]
TokS(s) == [k |-> "str", s |-> s, f |-> <<>>]
\* A number lexeme: whole part s, fraction digits f ("1.0" is TokN("1", <<"0">>)).
TokN(s, f) == [k |-> "num", s |-> s, f |-> f]
TokNull == [k |-> "lit", s |-> "null", f |-> <<>>]
TokWs == [k |-> "ws", s |-> " ", f |-> <<>>]
\* Anything that starts no JSON value ("<html>", ...).
TokJunk(s) == [k |-> "junk", s |-> s, f |-> <<>>]

StrVal(s) == [t |-> "str", s |-> s, f |-> <<>>, m |-> <<>>]
NumVal(s, f) == [t |-> "num", s |-> s, f |-> f, m |-> <<>>]
NullVal == [t |-> "null", s |-> "", f |-> <<>>, m |-> <<>>]
\* An object: its members <<key, value>> in property order.
ObjVal(m) == [t |-> "obj", s |-> "", f |-> <<>>, m |-> m]

\* The number a lexeme denotes: trailing zeros of the fraction carry no value.
RECURSIVE StripZeros(_)
StripZeros(f) ==
  IF f # <<>> /\ f[Len(f)] = "0" THEN StripZeros(SubSeq(f, 1, Len(f) - 1)) ELSE f

\* obj[key] = value: an existing property keeps its place and takes the new
\* value, a new property is appended.
ObjectSet(m, key, value) ==
  IF \E j \in 1..Len(m) : m[j][1] = key
  THEN [j \in 1..Len(m) |-> IF m[j][1] = key THEN <<key, value>> ELSE m[j]]
  ELSE Append(m, <<key, value>>)

RECURSIVE SkipWs(_, _)
SkipWs(toks, p) ==
  IF p <= Len(toks) /\ toks[p].k = "ws" THEN SkipWs(toks, p + 1) ELSE p

ParseFail == [ok |-> FALSE, val |-> NullVal, next |-> 0]

RECURSIVE ParseValue(_, _)
RECURSIVE ParseMembers(_, _, _, _)

\* One JSON value starting at or after position p0.
ParseValue(toks, p0) ==
  LET p == SkipWs(toks, p0) IN
  IF p > Len(toks) THEN ParseFail
  ELSE LET tk == toks[p] IN
    CASE tk.k = "str" -> [ok |-> TRUE, val |-> StrVal(tk.s), next |-> p + 1]
      [] tk.k = "num" ->
           [ok |-> TRUE, val |-> NumVal(tk.s, StripZeros(tk.f)), next |-> p + 1]
      [] tk.k = "lit" -> [ok |-> TRUE, val |-> NullVal, next |-> p + 1]
      [] tk = TokP("{") -> ParseMembers(toks, p + 1, <<>>, TRUE)
      [] OTHER -> ParseFail

\* The members of an object after "{" (first) or after "," (not first).
ParseMembers(toks, p0, acc, first) ==
  LET p == SkipWs(toks, p0) IN
  IF p > Len(toks) THEN ParseFail
  ELSE IF first /\ toks[p] = TokP("}")
  THEN [ok |-> TRUE, val |-> ObjVal(acc), next |-> p + 1]
  ELSE IF toks[p].k # "str" THEN ParseFail
  ELSE LET c == SkipWs(toks, p + 1) IN
    IF c > Len(toks) \/ toks[c] # TokP(":") THEN ParseFail
    ELSE LET v == ParseValue(toks, c + 1) IN
      IF ~v.ok THEN ParseFail
      ELSE LET q == SkipWs(toks, v.next)
               acc2 == ObjectSet(acc, toks[p].s, v.val)
           IN IF q > Len(toks) THEN ParseFail
              ELSE IF toks[q] = TokP("}")
              THEN [ok |-> TRUE, val |-> ObjVal(acc2), next |-> q + 1]
              ELSE IF toks[q] = TokP(",")
              THEN ParseMembers(toks, q + 1, acc2, FALSE)
              ELSE ParseFail

\* JSON.parse of a whole text: one value, then only whitespace.
JsonParse(toks) ==
  LET r == ParseValue(toks, 1) IN
  IF r.ok /\ SkipWs(toks, r.next) > Len(toks)
  THEN [ok |-> TRUE, val |-> r.val]
  ELSE [ok |-> FALSE, val |-> NullVal]

RECURSIVE JsonStringify(_)
RECURSIVE StringifyMembers(_)

\* JSON.stringify: no whitespace, members in property order.
JsonStringify(v) ==
  CASE v.t = "str" -> <<TokS(v.s)>>
    [] v.t = "num" -> <<TokN(v.s, v.f)>>
    [] v.t = "null" -> <<TokNull>>
    [] OTHER -> <<TokP("{")>> \o StringifyMembers(v.m) \o <<TokP("}")>>

StringifyMembers(m) ==
  IF m = <<>> THEN <<>>
  ELSE LET one == <<TokS(Head(m)[1]), TokP(":")>> \o JsonStringify(Head(m)[2])
       IN IF Len(m) = 1 THEN one
          ELSE one \o <<TokP(",")>> \o StringifyMembers(Tail(m))

\* The object literal { error: msg } the handler builds.
ErrorObject(msg) == ObjVal(<< <<"error", StrVal(msg)>> >>)

(***************************************************************************)
(* The response object res of one invocation                               *)
(***************************************************************************)

\* A fresh res: no header set, status code 200, nothing sent.
NewRes == [headers |-> {}, statusCode |-> 200, sent |-> <<>>]

\* res.setHeader(name, value): replaces the header's value.
ResSetHeader(r, name, value) ==
  [r EXCEPT !.headers = {h \in @ : h[1] # name} \cup {<<name, value>>}]

\* res.status(code)
ResStatus(r, code) == [r EXCEPT !.statusCode = code]

\* What goes on the wire when res sends: status, headers set so far, body text.
Sent(r, body) == [status |-> r.statusCode, headers |-> r.headers, body |-> body]

\* res.json(value): sends the stringified value.
ResJson(r, value) == [r EXCEPT !.sent = Append(@, Sent(r, JsonStringify(value)))]

\* res.end(): sends an empty body.
ResEnd(r) == [r EXCEPT !.sent = Append(@, Sent(r, <<>>))]

(***************************************************************************)
(* The handler, cut at its two awaits                                      *)
(***************************************************************************)

\* A query parameter of req.query: undefined, or a string (possibly empty).
Absent == [set |-> FALSE, v |-> <<>>]
Given(v) == [set |-> TRUE, v |-> v]

\* Mutant of Truthy: `!== undefined`, so that "" counts as supplied.
Defined(x) == x.set

\* JavaScript truthiness of a query parameter: undefined and "" are falsy.
Truthy(x) == x.set /\ x.v # <<>>

KaitoBase == "https://api.kaito.ai/api/v1/yaps"

\* Mutant of SetCorsHeaders: the Allow-Headers line is missing.
SetCorsHeadersNoAllowHeaders(r) ==
  ResSetHeader(
    ResSetHeader(r, "Access-Control-Allow-Origin", "*"),
    "Access-Control-Allow-Methods", "GET")

\* Lines 3-5.
SetCorsHeaders(r) ==
  ResSetHeader(
    ResSetHeader(
      ResSetHeader(r, "Access-Control-Allow-Origin", "*"),
      "Access-Control-Allow-Methods", "GET"),
    "Access-Control-Allow-Headers", "Content-Type")

\* Lines 29-31: the URLSearchParams built from the two recognized parameters.
BuildQueryParams(username, user_id) ==
  LET q0 == NewURLSearchParams
      q1 == IF Truthy(username) THEN ParamsAppend(q0, <<"username">>, username.v) ELSE q0
      q2 == IF Truthy(user_id) THEN ParamsAppend(q1, <<"user_id">>, user_id.v) ELSE q1
  IN q2

\* Lines 34-43: the fetch call's arguments.
FetchCall(queryParams) ==
  [base |-> KaitoBase,
   query |-> ParamsToString(queryParams),
   method |-> "GET",
   headers |-> {<<"Content-Type", "application/json">>,
                <<"User-Agent", "kaito-yaps-proxy/1.0.0">>}]

\* The state an invocation is left in by one synchronous run of the handler:
\* where it is, its res, the fetch calls it issued, whether it started reading
\* the upstream body, and whether an exception left the handler uncaught.
Frame(at, r, calls, reads, unhandled) ==
  [pc |-> at, res |-> r, calls |-> calls, reads |-> reads, fault |-> unhandled]

\* Mutant of CatchBlock: no try/catch, the exception leaves the handler.
Uncaught(r) == Frame("done", r, <<>>, FALSE, TRUE)

\* Lines 58-61: the catch block.
CatchBlock(r) ==
  Frame("done", ResJson(ResStatus(r, 500), ErrorObject("Internal server error")),
        <<>>, FALSE, FALSE)

\* Mutant of HandlerEntry: the parameters are validated before the method is
\* looked at.
HandlerEntryValidateFirst(rq) ==
  LET r == SetCorsHeaders(NewRes)
      username == rq.query.username
      user_id == rq.query.user_id
  IN IF ~Truthy(username) /\ ~Truthy(user_id)
     THEN Frame("done",
                ResJson(ResStatus(r, 400), ErrorObject("username or user_id required")),
                <<>>, FALSE, FALSE)
     ELSE IF rq.method = "OPTIONS"
     THEN Frame("done", ResEnd(ResStatus(r, 200)), <<>>, FALSE, FALSE)
     ELSE IF rq.method # "GET"
     THEN Frame("done", ResJson(ResStatus(r, 405), ErrorObject("Method not allowed")),
                <<>>, FALSE, FALSE)
     ELSE Frame("awaitFetch", r, <<FetchCall(BuildQueryParams(username, user_id))>>,
                FALSE, FALSE)

\* Lines 1-37: from the call of the handler to its first await.
HandlerEntry(rq) ==
  LET r == SetCorsHeaders(NewRes)
      username == rq.query.username
      user_id == rq.query.user_id
  IN IF rq.method = "OPTIONS"
     THEN Frame("done", ResEnd(ResStatus(r, 200)), <<>>, FALSE, FALSE)
     ELSE IF rq.method # "GET"
     THEN Frame("done", ResJson(ResStatus(r, 405), ErrorObject("Method not allowed")),
                <<>>, FALSE, FALSE)
     ELSE IF ~Truthy(username) /\ ~Truthy(user_id)
     THEN Frame("done",
                ResJson(ResStatus(r, 400), ErrorObject("username or user_id required")),
                <<>>, FALSE, FALSE)
     ELSE Frame("awaitFetch", r, <<FetchCall(BuildQueryParams(username, user_id))>>,
                FALSE, FALSE)

\* response.ok
ResponseOk(resp) == resp.status >= 200 /\ resp.status <= 299

\* Mutant of HandlerAfterFetch: the `return` after the 502 is missing, so the
\* handler goes on to read the body.
HandlerAfterFetchNoReturn(r, resp) ==
  IF resp.threw THEN CatchBlock(r)
  ELSE IF ~ResponseOk(resp)
  THEN Frame("awaitJson", ResJson(ResStatus(r, 502), ErrorObject("Upstream error")),
             <<>>, TRUE, FALSE)
  ELSE Frame("awaitJson", r, <<>>, TRUE, FALSE)

\* Mutant of HandlerAfterFetch: the upstream's status is passed through.
HandlerAfterFetchStatusThrough(r, resp) ==
  IF resp.threw THEN CatchBlock(r)
  ELSE IF ~ResponseOk(resp)
  THEN Frame("done", ResJson(ResStatus(r, resp.status), ErrorObject("Upstream error")),
             <<>>, FALSE, FALSE)
  ELSE Frame("awaitJson", r, <<>>, TRUE, FALSE)

\* Lines 37-53: the fetch has settled; up to the await of response.json().
HandlerAfterFetch(r, resp) ==
  IF resp.threw THEN CatchBlock(r)
  ELSE IF ~ResponseOk(resp)
  THEN Frame("done", ResJson(ResStatus(r, 502), ErrorObject("Upstream error")),
             <<>>, FALSE, FALSE)
  ELSE Frame("awaitJson", r, <<>>, TRUE, FALSE)

\* Mutant of HandlerAfterJson: only the first field of the upstream object is
\* forwarded.
HandlerAfterJsonPicked(r, d) ==
  IF ~d.ok THEN CatchBlock(r)
  ELSE Frame("done",
             ResJson(ResStatus(r, 200),
                     IF d.val.t = "obj" THEN ObjVal(SubSeq(d.val.m, 1, 1)) ELSE d.val),
             <<>>, FALSE, FALSE)

\* Lines 53-56: response.json() has settled.
HandlerAfterJson(r, d) ==
  IF ~d.ok THEN CatchBlock(r)
  ELSE Frame("done", ResJson(ResStatus(r, 200), d.val), <<>>, FALSE, FALSE)

(***************************************************************************)
(* Inputs: inbound requests and upstream behaviours                        *)
(***************************************************************************)

Query(username, user_id, ref) == [username |-> username, user_id |-> user_id, ref |-> ref]

LongName == Given(<<"a", " ", "b", "&", "user_id", "=", "7">>)
OddId == Given(<<"1", "+", "%">>)

\* req.query: the two recognized keys, and one key the handler does not know.
\* Queries that supply at least one recognized parameter ...
SuppliedQueries ==
  {Query(LongName, Given(<<>>), Absent),
   Query(Absent, OddId, Given(<<"x">>)),
   Query(LongName, OddId, Absent)}

\* ... and queries that supply none (undefined or empty string).
EmptyQueries ==
  {Query(u, d, Absent) : u \in {Absent, Given(<<>>)}, d \in {Absent, Given(<<>>)}}
  \cup {Query(Absent, Absent, Given(<<"x">>))}

Queries == SuppliedQueries \cup EmptyQueries

NoQuery == [username |-> Absent, user_id |-> Absent, ref |-> Absent]

Requests ==
  {[method |-> "GET", query |-> q] : q \in Queries}
  \cup {[method |-> m, query |-> q] :
          m \in {"OPTIONS", "POST"},
          q \in {NoQuery, [NoQuery EXCEPT !.username = Given(<<"VitalikButerin">>)]}}

NoRequest == [method |-> "", query |-> NoQuery]

\* {"user_id":"295218901","username":"VitalikButerin","yaps_all":7530.93}
YapsBody ==
  <<TokP("{"), TokS("user_id"), TokP(":"), TokS("295218901"), TokP(","),
    TokS("username"), TokP(":"), TokS("VitalikButerin"), TokP(","),
    TokS("yaps_all"), TokP(":"), TokN("7530", <<"9", "3">>), TokP("}")>>

\* { "a" : 1.0, "b" : {"c":null}, "a" : 2.50 } followed by a newline
MessyBody ==
  <<TokP("{"), TokWs, TokS("a"), TokWs, TokP(":"), TokWs, TokN("1", <<"0">>), TokP(","),
    TokWs, TokS("b"), TokP(":"), TokP("{"), TokS("c"), TokP(":"), TokNull, TokP("}"),
    TokP(","), TokS("a"), TokP(":"), TokN("2", <<"5", "0">>), TokWs, TokP("}"), TokWs>>

\* {"username":"Vit      (cut short)
TruncatedBody == <<TokP("{"), TokS("username"), TokP(":")>>

\* {"message":"User not found"}
NotFoundBody ==
  <<TokP("{"), TokS("message"), TokP(":"), TokS("User not found"), TokP("}")>>

\* <html>Service Unavailable</html>
HtmlBody == <<TokJunk("<html>"), TokJunk("Service Unavailable"), TokJunk("</html>")>>

\* How a fetch can settle: it throws, or it yields a Response.
Threw == [threw |-> TRUE, status |-> 0, body |-> <<>>]
Responded(status, body) == [threw |-> FALSE, status |-> status, body |-> body]

UpstreamOutcomes ==
  {Threw,
   Responded(200, YapsBody), Responded(299, MessyBody), Responded(200, TruncatedBody),
   Responded(404, NotFoundBody), Responded(300, HtmlBody)}

(***************************************************************************)
(* State                                                                   *)
(***************************************************************************)

NoResponse == [state |-> "none", threw |-> FALSE, status |-> 0, body |-> <<>>,
               bodyUsed |-> FALSE]
NoData == [state |-> "none", ok |-> FALSE, val |-> NullVal]

Init ==
  /\ pc = [i \in Invocations |-> "idle"]
  /\ req = [i \in Invocations |-> NoRequest]
  /\ res = [i \in Invocations |-> NewRes]
  /\ outbound = [i \in Invocations |-> <<>>]
  /\ response = [i \in Invocations |-> NoResponse]
  /\ data = [i \in Invocations |-> NoData]
  /\ fault = [i \in Invocations |-> FALSE]
  /\ elapsed = 0
  /\ windowCalls = 0

\* Invocation i runs synchronously to frame f: its next await, or its end.
RunTo(i, f) ==
  /\ pc' = [pc EXCEPT ![i] = f.pc]
  /\ res' = [res EXCEPT ![i] = f.res]
  /\ outbound' = [outbound EXCEPT ![i] = @ \o f.calls]
  /\ response' = [response EXCEPT ![i] =
                    IF f.calls # <<>> THEN [NoResponse EXCEPT !.state = "pending"]
                    ELSE IF f.reads THEN [@ EXCEPT !.bodyUsed = TRUE]
                    ELSE @]
  /\ data' = [data EXCEPT ![i] = IF f.reads THEN [NoData EXCEPT !.state = "pending"] ELSE @]
  /\ fault' = [fault EXCEPT ![i] = f.fault]
  /\ windowCalls' = windowCalls + Len(f.calls)
  /\ UNCHANGED elapsed

\* The host calls handler(req, res) for an inbound request.
Invoke(i, rq) ==
  /\ pc[i] = "idle"
  /\ req' = [req EXCEPT ![i] = rq]
  /\ RunTo(i, HandlerEntry(rq))

\* The upstream (or the transport) settles the fetch of invocation i.
FetchSettle(i, o) ==
  /\ pc[i] = "awaitFetch"
  /\ response[i].state = "pending"
  /\ response' = [response EXCEPT ![i] =
                    [state |-> "settled", threw |-> o.threw, status |-> o.status,
                     body |-> o.body, bodyUsed |-> FALSE]]
  /\ UNCHANGED <<pc, req, res, outbound, data, fault, elapsed, windowCalls>>

\* Mutant of ResumeFetch: a module-level flag remembers that a fetch has
\* failed, and later failures are answered 503.
ResumeFetchBreaker(i) ==
  /\ pc[i] = "awaitFetch"
  /\ response[i].state = "settled"
  /\ IF response[i].threw /\ \E j \in Invocations \ {i} : pc[j] = "done" /\ response[j].threw
     THEN RunTo(i, Frame("done",
                         ResJson(ResStatus(res[i], 503), ErrorObject("Internal server error")),
                         <<>>, FALSE, FALSE))
     ELSE RunTo(i, HandlerAfterFetch(res[i], response[i]))
  /\ UNCHANGED req

\* The handler resumes after `await fetch(...)`.
ResumeFetch(i) ==
  /\ pc[i] = "awaitFetch"
  /\ response[i].state = "settled"
  /\ RunTo(i, HandlerAfterFetch(res[i], response[i]))
  /\ UNCHANGED req

\* The body of the upstream response has arrived: response.json() settles.
BodySettle(i) ==
  /\ pc[i] = "awaitJson"
  /\ data[i].state = "pending"
  /\ data' = [data EXCEPT ![i] =
                LET parsed == JsonParse(response[i].body)
                IN [state |-> "settled", ok |-> parsed.ok, val |-> parsed.val]]
  /\ UNCHANGED <<pc, req, res, outbound, response, fault, elapsed, windowCalls>>

\* The handler resumes after `await response.json()`.
ResumeJson(i) ==
  /\ pc[i] = "awaitJson"
  /\ data[i].state = "settled"
  /\ RunTo(i, HandlerAfterJson(res[i], data[i]))
  /\ UNCHANGED req

Next ==
  \/ \E i \in Invocations, rq \in Requests : Invoke(i, rq)
  \/ \E i \in Invocations, o \in UpstreamOutcomes : FetchSettle(i, o)
  \/ \E i \in Invocations : ResumeFetch(i)
  \/ \E i \in Invocations : BodySettle(i)
  \/ \E i \in Invocations : ResumeJson(i)

Spec == Init /\ [][Next]_vars

\* One request for each path through the handler's synchronous part.
PathRequests ==
  {[method |-> "OPTIONS", query |-> NoQuery],
   [method |-> "POST", query |-> NoQuery],
   [method |-> "GET", query |-> NoQuery],
   [method |-> "GET", query |-> Query(Given(<<"VitalikButerin">>), Absent, Absent)]}

FairNext ==
  \/ \E i \in Invocations, rq \in PathRequests : Invoke(i, rq)
  \/ \E i \in Invocations, o \in UpstreamOutcomes : FetchSettle(i, o)
  \/ \E i \in Invocations : ResumeFetch(i)
  \/ \E i \in Invocations : BodySettle(i)
  \/ \E i \in Invocations : ResumeJson(i)

\* The interleavings of the invocations, under the event loop's guarantee that
\* the continuation of every settled promise is run.
FairSpec ==
  /\ Init /\ [][FairNext]_vars
  /\ \A i \in Invocations : WF_vars(ResumeFetch(i)) /\ WF_vars(ResumeJson(i))

(***************************************************************************)
(* Rate of upstream calls: the host reuses finished invocations and time   *)
(* passes, minute by minute, through the upstream's 5-minute window.       *)
(***************************************************************************)

\* The host is done with a finished invocation; its slot serves the next one.
Recycle(i) ==
  /\ pc[i] = "done"
  /\ pc' = [pc EXCEPT ![i] = "idle"]
  /\ req' = [req EXCEPT ![i] = NoRequest]
  /\ res' = [res EXCEPT ![i] = NewRes]
  /\ outbound' = [outbound EXCEPT ![i] = <<>>]
  /\ response' = [response EXCEPT ![i] = NoResponse]
  /\ data' = [data EXCEPT ![i] = NoData]
  /\ fault' = [fault EXCEPT ![i] = FALSE]
  /\ UNCHANGED <<elapsed, windowCalls>>

\* A minute passes; after WindowMinutes the upstream's window starts afresh.
Tick ==
  /\ IF elapsed + 1 < WindowMinutes
     THEN elapsed' = elapsed + 1 /\ UNCHANGED windowCalls
     ELSE elapsed' = 0 /\ windowCalls' = 0
  /\ UNCHANGED <<pc, req, res, outbound, response, data, fault>>

RateRequests ==
  {[method |-> "GET", query |-> Query(Given(<<"VitalikButerin">>), Absent, Absent)]}

\* Calls are counted up to one past the limit.
RateNext ==
  \/ \E i \in Invocations, rq \in RateRequests :
       windowCalls <= RateLimit /\ Invoke(i, rq)
  \/ \E i \in Invocations, o \in UpstreamOutcomes : FetchSettle(i, o)
  \/ \E i \in Invocations : ResumeFetch(i)
  \/ \E i \in Invocations : BodySettle(i)
  \/ \E i \in Invocations : ResumeJson(i)
  \/ \E i \in Invocations : Recycle(i)
  \/ Tick

RateSpec == Init /\ [][RateNext]_vars

(***************************************************************************)
(* What the claims speak of                                                *)
(***************************************************************************)

\* The text {"error":"<msg>"}.
ErrorText(msg) == <<TokP("{"), TokS("error"), TokP(":"), TokS(msg), TokP("}")>>

\* The three CORS headers.
CorsHeaders ==
  {<<"Access-Control-Allow-Origin", "*">>,
   <<"Access-Control-Allow-Methods", "GET">>,
   <<"Access-Control-Allow-Headers", "Content-Type">>}

\* A query parameter that was not supplied: undefined or the empty string.
Missing(x) == ~x.set \/ x.v = <<>>

Started(i) == pc[i] # "idle"
Done(i) == pc[i] = "done"

\* A GET request with at least one of username / user_id supplied.
ValidGet(i) ==
  /\ Started(i)
  /\ req[i].method = "GET"
  /\ ~(Missing(req[i].query.username) /\ Missing(req[i].query.user_id))

\* Invocation i sent exactly one response, with this status and body.
Answered(i, status, body) ==
  /\ Len(res[i].sent) = 1
  /\ res[i].sent[1].status = status
  /\ res[i].sent[1].body = body

FetchSettled(i) == response[i].state = "settled"
Upstream2xx(i) ==
  FetchSettled(i) /\ ~response[i].threw
  /\ response[i].status \in 200..299
UpstreamNon2xx(i) ==
  FetchSettled(i) /\ ~response[i].threw
  /\ response[i].status \notin 200..299

\* How the upstream reads a query string: pairs split at "&" and at the first
\* "=", percent-decoded.
HexChar(a, b) ==
  CASE <<a, b>> = <<"2", "6">> -> "&"
    [] <<a, b>> = <<"3", "D">> -> "="
    [] <<a, b>> = <<"2", "B">> -> "+"
    [] <<a, b>> = <<"2", "5">> -> "%"
    [] <<a, b>> = <<"2", "0">> -> " "
    [] OTHER -> "?"

RECURSIVE PercentDecode(_)
PercentDecode(s) ==
  IF s = <<>> THEN <<>>
  ELSE IF Head(s) = "+" THEN <<" ">> \o PercentDecode(Tail(s))
  ELSE IF Head(s) = "%" /\ Len(s) >= 3
  THEN <<HexChar(s[2], s[3])>> \o PercentDecode(SubSeq(s, 4, Len(s)))
  ELSE <<Head(s)>> \o PercentDecode(Tail(s))

FirstIndex(s, c) ==
  IF \E k \in 1..Len(s) : s[k] = c
  THEN CHOOSE k \in 1..Len(s) : s[k] = c /\ \A j \in 1..(k - 1) : s[j] # c
  ELSE 0

RECURSIVE SplitOn(_, _)
SplitOn(s, c) ==
  LET k == FirstIndex(s, c) IN
  IF k = 0 THEN <<s>>
  ELSE <<SubSeq(s, 1, k - 1)>> \o SplitOn(SubSeq(s, k + 1, Len(s)), c)

PairOf(seg) ==
  LET k == FirstIndex(seg, "=") IN
  IF k = 0 THEN <<PercentDecode(seg), <<>>>>
  ELSE <<PercentDecode(SubSeq(seg, 1, k - 1)),
         PercentDecode(SubSeq(seg, k + 1, Len(seg)))>>

UpstreamSees(qs) ==
  IF qs = <<>> THEN <<>>
  ELSE LET segs == SplitOn(qs, "&") IN [k \in 1..Len(segs) |-> PairOf(segs[k])]

\* The recognized parameters a query supplies, as name/value pairs.
Supplied(q) ==
  (IF Missing(q.username) THEN {} ELSE {<<<<"username">>, q.username.v>>})
  \cup (IF Missing(q.user_id) THEN {} ELSE {<<<<"user_id">>, q.user_id.v>>})

Range(f) == {f[k] : k \in DOMAIN f}

(***************************************************************************)
(* The claims                                                              *)
(***************************************************************************)

C2_CorsOnEveryResponse ==
  \A i \in Invocations :
    \A k \in 1..Len(res[i].sent) :
      /\ CorsHeaders \subseteq res[i].sent[k].headers
      /\ \A h \in res[i].sent[k].headers :
           (\E c \in CorsHeaders : c[1] = h[1]) => h \in CorsHeaders

\* A preflight response and an error response of the upstream path were sent.
C2_Witness ==
  \E i, j \in Invocations :
    /\ req[i].method = "OPTIONS" /\ Len(res[i].sent) = 1
    /\ Len(res[j].sent) = 1 /\ res[j].sent[1].status \in {500, 502}

\* C3: an invocation sends at most one response, has sent exactly one when it
\* ends, and once its outbound call has settled (the fetch threw or came back
\* non-2xx, or the body of a 2xx response was read) it eventually responds and
\* ends, in every interleaving of the invocations.
C3_Settled(i) ==
  \/ pc[i] = "awaitFetch" /\ FetchSettled(i) /\ (response[i].threw \/ UpstreamNon2xx(i))
  \/ pc[i] = "awaitJson" /\ data[i].state = "settled"

C4_QueryForwarded ==
  \A i \in Invocations :
    \A k \in 1..Len(outbound[i]) :
      LET seen == UpstreamSees(outbound[i][k].query) IN
        /\ ValidGet(i)
        /\ outbound[i][k].base = KaitoBase
        /\ Range(seen) = Supplied(req[i].query)
        /\ Len(seen) = Cardinality(Supplied(req[i].query))

\* A username holding "&", "=" and a space went out alone beside an empty
\* user_id, and a user_id went out alone beside a foreign key.
C4_Witness ==
  \E i, j \in Invocations :
    /\ req[i].query = Query(LongName, Given(<<>>), Absent)
    /\ Len(outbound[i]) = 1
    /\ UpstreamSees(outbound[i][1].query) = << <<<<"username">>, LongName.v>> >>
    /\ req[j].query.ref.set
    /\ Len(outbound[j]) = 1
    /\ UpstreamSees(outbound[j][1].query) = << <<<<"user_id">>, OddId.v>> >>

\* C5: a GET with neither username nor user_id (undefined or empty) is answered
\* 400 {"error":"username or user_id required"} and no upstream call is made.
C5_MissingParams ==
  \A i \in Invocations :
    (Started(i) /\ req[i].method = "GET"
       /\ Missing(req[i].query.username) /\ Missing(req[i].query.user_id))
      => /\ Done(i)
         /\ Answered(i, 400, ErrorText("username or user_id required"))
         /\ outbound[i] = <<>>
         /\ response[i].state = "none"

\* A GET with username="" and user_id undefined was answered.
C5_Witness ==
  \E i \in Invocations :
    /\ Done(i) /\ req[i].method = "GET"
    /\ req[i].query = Query(Given(<<>>), Absent, Absent)
    /\ Len(res[i].sent) = 1

\* C6: a request whose method is not GET is answered by its method alone and
\* makes no upstream call: OPTIONS gets 200 with an empty body, any other
\* method 405 {"error":"Method not allowed"}, with or without parameters.
C6_MethodFirst ==
  \A i \in Invocations :
    (Started(i) /\ req[i].method # "GET")
      => /\ Done(i)
         /\ outbound[i] = <<>>
         /\ response[i].state = "none"
         /\ IF req[i].method = "OPTIONS"
            THEN Answered(i, 200, <<>>)
            ELSE Answered(i, 405, ErrorText("Method not allowed"))

\* A POST without parameters and an OPTIONS with a username were answered.
C6_Witness ==
  \E i, j \in Invocations :
    /\ Done(i) /\ req[i].method = "POST" /\ req[i].query = NoQuery
    /\ Done(j) /\ req[j].method = "OPTIONS" /\ req[j].query.username.set

\* C7: a valid GET whose upstream call comes back non-2xx is answered 502
\* {"error":"Upstream error"} whatever the upstream status and body; the
\* upstream body is not read and the call is made once.
C7_UpstreamError ==
  \A i \in Invocations :
    (Done(i) /\ ValidGet(i) /\ UpstreamNon2xx(i))
      => /\ Answered(i, 502, ErrorText("Upstream error"))
         /\ ~response[i].bodyUsed
         /\ data[i].state = "none"
         /\ Len(outbound[i]) = 1

\* Two invocations got different non-2xx upstream responses (404 with a JSON
\* body, 300 with HTML) and both were answered.
C7_Witness ==
  \E i, j \in Invocations :
    /\ Done(i) /\ UpstreamNon2xx(i) /\ response[i].status = 404
    /\ Done(j) /\ UpstreamNon2xx(j) /\ response[j].status = 300

\* C8: a valid GET whose fetch throws, or whose 2xx upstream body does not
\* parse as JSON, is answered 500 {"error":"Internal server error"}; no
\* exception leaves the handler and the call is made once.
C8_InternalError ==
  \A i \in Invocations :
    /\ ~fault[i]
    /\ (Done(i) /\ ValidGet(i) /\ FetchSettled(i)
          /\ (response[i].threw \/ (Upstream2xx(i) /\ ~JsonParse(response[i].body).ok)))
         => /\ Answered(i, 500, ErrorText("Internal server error"))
            /\ Len(outbound[i]) = 1

\* One invocation's fetch threw, another's 2xx body was cut short; both were
\* answered.
C8_Witness ==
  \E i, j \in Invocations :
    /\ Done(i) /\ FetchSettled(i) /\ response[i].threw
    /\ Done(j) /\ Upstream2xx(j) /\ response[j].body = TruncatedBody

\* C9: two invocations with the same request and the same upstream outcome
\* have sent the same status and body, whatever ran before or between them.
C9_SameOutcome(i, j) ==
  /\ response[i].state = response[j].state
  /\ response[i].threw = response[j].threw
  /\ response[i].status = response[j].status
  /\ response[i].body = response[j].body

C10_RateLimitRespected == windowCalls <= RateLimit

====
